---- MODULE Spec2Model ----
(***************************************************************************)
(* Model of homework.py: a bot that polls the homework-status API and      *)
(* forwards the newest status (or the error it met) to a Telegram chat,    *)
(* remembering the last text in prev_report so that a text is not sent     *)
(* twice in a row.                                                          *)
(*                                                                         *)
(* The Russian texts of the source are rendered in English, one fixed      *)
(* ASCII text per source literal; every formatted field of the source      *)
(* stays a formatted field here.                                           *)
(***************************************************************************)
EXTENDS Integers, Sequences, FiniteSets, TLC

VARIABLES
    pc,              \* position of main()
    tokens,          \* which of the three environment values are set
    now,             \* time.time(), in seconds
    current_time,    \* main: current_time
    prev_report,     \* main: prev_report (dict)
    current_report,  \* main: current_report (dict)
    response,        \* main: response (local of the current iteration)
    homeworks,       \* main: homeworks (local of the current iteration)
    message,         \* main: message (local of the current iteration)
    remote,          \* what the API did in the current iteration (input)
    from_date,       \* the from_date parameter of the latest request
    caught,          \* the exception the current iteration raised, if any
    parsed,          \* parse_status was called in the current iteration
    sends,           \* bot.send_message calls of the current iteration
    cycle_prev,      \* prev_report as it was when the iteration began
    slept,           \* time.sleep was called since the latest request
    commits,         \* the texts the iteration stored in prev_report
    last_attempt     \* the text of the latest bot.send_message call

vars == <<pc, tokens, now, current_time, prev_report, current_report,
          response, homeworks, message, remote, from_date, caught, parsed,
          sends, cycle_prev, slept, commits, last_attempt>>

----------------------------------------------------------------------------
(* Bounds of the model *)

\* records after the first one in a homeworks list
MaxTail == 1
\* seconds that may pass, one at a time, while the loop runs
MaxTicks == 1

----------------------------------------------------------------------------
(* Constants of the program *)

RETRY_TIME == 600

HTTP_OK == 200

StartTime == 1

VERDICTS ==
    [approved  |-> "Work checked: the reviewer liked everything. Hooray!",
     reviewing |-> "Work taken for review by the reviewer.",
     rejected  |-> "Work checked: the reviewer has remarks."]

TokenNames == {"PRACTICUM_TOKEN", "TELEGRAM_TOKEN", "TELEGRAM_CHAT_ID"}

----------------------------------------------------------------------------
(* Python values *)

\* the value of a call that raised
Unbound == [t |-> "unbound"]

\* the locals homeworks and message before the iteration assigns them
NoList == <<>>
NoText == ""

\* None and str values, as dict.get returns them
None == [t |-> "NoneType", v |-> "None"]
PyStr(s) == [t |-> "str", v |-> s]

\* bool(x) of None or a str
Truthy(x) == x.t = "str" /\ x.v # ""

\* f'{x}' of None or a str
Format(x) == x.v

\* f'{type(x)}'
FormatType(x) == "<class '" \o x.t \o "'>"

\* d.get(k) of a dict of strings
DictGet(d, k) == IF k \in DOMAIN d THEN PyStr(d[k]) ELSE None

\* d[k] = v
DictSet(d, k, v) == [x \in (DOMAIN d) \cup {k} |-> IF x = k THEN v ELSE d[x]]

EmptyDict == <<>>

RECURSIVE JoinLines(_, _)
JoinLines(lines, nl) ==
    IF lines = <<>> THEN ""
    ELSE IF Len(lines) = 1 THEN lines[1]
    ELSE lines[1] \o nl \o JoinLines(Tail(lines), nl)

----------------------------------------------------------------------------
(* Exceptions: exception.py and the builtins the program raises *)

\* a failed send is an error like the others
ExcParent_flat ==
    [ErrorNotToSend                |-> "Exception",
     SendMessageFailed             |-> "Exception",
     EmptyResponse                 |-> "ErrorNotToSend",
     UnexpectedHTTPStatusCodeError |-> "Exception",
     UnexpectedTypeError           |-> "Exception",
     TypeError                     |-> "Exception",
     KeyError                      |-> "LookupError",
     LookupError                   |-> "Exception",
     NameError                     |-> "Exception",
     AttributeError                |-> "Exception",
     ConnectionError               |-> "OSError",
     OSError                       |-> "Exception",
     Exception                     |-> "BaseException"]

ExcParent ==
    [ErrorNotToSend                |-> "Exception",
     SendMessageFailed             |-> "ErrorNotToSend",
     EmptyResponse                 |-> "ErrorNotToSend",
     UnexpectedHTTPStatusCodeError |-> "Exception",
     UnexpectedTypeError           |-> "Exception",
     TypeError                     |-> "Exception",
     KeyError                      |-> "LookupError",
     LookupError                   |-> "Exception",
     NameError                     |-> "Exception",
     AttributeError                |-> "Exception",
     ConnectionError               |-> "OSError",
     OSError                       |-> "Exception",
     Exception                     |-> "BaseException"]

RECURSIVE IsInstance(_, _)
IsInstance(kind, cls) ==
    IF kind = cls THEN TRUE
    ELSE IF kind \in DOMAIN ExcParent THEN IsInstance(ExcParent[kind], cls)
    ELSE FALSE

\* an exception: its class and the lines of its one argument
Exc(kind, lines) == [kind |-> kind, lines |-> lines]

NoExc == Exc("none", <<>>)

\* str(error): KeyError shows the repr of its argument
ExcStr(e) ==
    IF e.kind = "KeyError"
    THEN "'" \o JoinLines(e.lines, "\\n") \o "'"
    ELSE JoinLines(e.lines, "\n")

\* results of the functions of the program
Return(v) == [ok |-> TRUE, value |-> v, exc |-> NoExc]
Raise(e) == [ok |-> FALSE, value |-> Unbound, exc |-> e]

----------------------------------------------------------------------------
(* What the API and Telegram may do: the inputs of the model *)

HomeworkNames == {"hw1", ""}

StatusValues == {"approved", "reviewing", "rejected", "bogus"}

PairsToDict(ps) ==
    [k \in {p[1] : p \in ps} |-> (CHOOSE p \in ps : p[1] = k)[2]]

\* the dicts with any of the keys homework_name and status
HomeworkDicts ==
    {PairsToDict(nm \cup st) :
        nm \in {{}} \cup {{<<"homework_name", n>>} : n \in HomeworkNames},
        st \in {{}} \cup {{<<"status", s>>} : s \in StatusValues}}

\* an element of the homeworks list: a dict, or a value that is not a dict
JsonRecord(type, fields) == [t |-> type, fields |-> fields]

FirstRecords ==
    {JsonRecord("dict", f) : f \in HomeworkDicts}
        \cup {JsonRecord("str", EmptyDict)}

TailRecords ==
    {JsonRecord("dict", [homework_name |-> "hw0", status |-> "approved"]),
     JsonRecord("dict", [homework_name |-> "hw0", status |-> "bogus"])}

Tails == UNION {[1..n -> TailRecords] : n \in 0..MaxTail}

HomeworkLists ==
    {<<>>} \cup {<<f>> \o tl : f \in FirstRecords, tl \in Tails}

\* the value under the key homeworks: a list or something else
JsonValue(type, items) == [t |-> type, items |-> items]

\* response.json(): a dict with some of the keys, or not a dict
JsonBody(type, keys, hw) == [t |-> type, keys |-> keys, homeworks |-> hw]

\* no body: the request failed, or the local response is not assigned
NoBody == JsonBody("NoneType", {}, JsonValue("NoneType", <<>>))

Bodies ==
    {JsonBody("list", {}, JsonValue("NoneType", <<>>))}
        \cup {JsonBody("dict", ks, JsonValue("NoneType", <<>>)) :
                ks \in {{}, {"current_date"}}}
        \cup {JsonBody("dict", {"homeworks", "current_date"},
                       JsonValue(ty, <<>>)) : ty \in {"NoneType", "dict"}}
        \cup {JsonBody("dict", ks, JsonValue("list", l)) :
                ks \in {{"homeworks"}, {"homeworks", "current_date"}},
                l \in HomeworkLists}

\* one request: how the connection went, the status line, the decoded body
Remote(net, code, reason, body) ==
    [net |-> net, status_code |-> code, reason |-> reason, body |-> body]

NoRemote == Remote("none", 0, "", NoBody)

Remotes ==
    {Remote("requests.ConnectionError", 0, "Max retries exceeded", NoBody),
     Remote("builtins.ConnectionError", 0, "Connection reset by peer", NoBody),
     Remote("ok", 503, "Service Unavailable", NoBody),
     Remote("ok", 404, "Not Found", NoBody)}
        \cup {Remote("ok", HTTP_OK, "OK", b) : b \in Bodies}

----------------------------------------------------------------------------
(* The functions of homework.py *)

\* the error of bot.send_message is raised as it came
send_message_plain(text, deliver) ==
    IF deliver
    THEN Return(None)
    ELSE Raise(Exc("Exception", <<"Telegram error">>))

\* send_message: deliver says whether bot.send_message returned
send_message(text, deliver) ==
    IF deliver
    THEN Return(None)
    ELSE Raise(Exc("SendMessageFailed",
                   <<"Could not send the message: " \o "Telegram error">>))

\* the window of the request reaches back by the time the program has run
Timestamp_window(ct, nw) == ct - (nw - ct)

\* get_api_answer: the from_date parameter
Timestamp(ct, nw) == IF ct # 0 THEN ct ELSE nw

\* get_api_answer
get_api_answer(rem) ==
    IF rem.net = "requests.ConnectionError"
    THEN Raise(Exc("ConnectionError", <<rem.reason>>))
    ELSE IF rem.net = "builtins.ConnectionError"
    THEN Raise(Exc("ConnectionError",
                   <<rem.reason \o ", passed variables:",
                     "{url}",
                     "Authorization: {headers[Authorization]:.5}",
                     "{params}">>))
    ELSE IF rem.status_code = HTTP_OK
    THEN Return(rem.body)
    ELSE Raise(Exc("UnexpectedHTTPStatusCodeError",
                   <<"Expected response: " \o ToString(HTTP_OK)
                        \o ". Received: " \o ToString(rem.status_code)
                        \o " " \o rem.reason,
                     "">>))

\* response.get('homeworks')
GetHomeworks(resp) ==
    IF "homeworks" \in resp.keys
    THEN resp.homeworks
    ELSE JsonValue("NoneType", <<>>)

\* check_response, the condition of line 88:
\* 'homeworks' or 'current_date' not in response
Line88(resp) == "homeworks" # "" \/ "current_date" \notin resp.keys

\* an empty list counts as no list
check_response_truthy(resp) ==
    IF resp.t = "dict"
    THEN IF GetHomeworks(resp).t = "list" /\ GetHomeworks(resp).items # <<>>
         THEN Return(GetHomeworks(resp).items)
         ELSE Raise(Exc("TypeError",
                        <<"The server did not send the data as a list."
                            \o "Received " \o FormatType(GetHomeworks(resp))>>))
    ELSE Raise(Exc("TypeError",
                   <<"The server did not send the data as a dict."
                       \o "Received " \o FormatType(resp)>>))

\* the type of the value under homeworks is not checked
check_response_anytype(resp) ==
    IF resp.t = "dict"
    THEN Return(GetHomeworks(resp).items)
    ELSE Raise(Exc("TypeError",
                   <<"The server did not send the data as a dict."
                       \o "Received " \o FormatType(resp)>>))

\* check_response
check_response(resp) ==
    IF resp.t = "dict"
    THEN IF GetHomeworks(resp).t = "list"
         THEN IF Line88(resp)
              THEN Return(GetHomeworks(resp).items)
              ELSE Raise(Exc("EmptyResponse",
                             <<"The response has no homeworks."
                                 \o "Received: " \o "{...}">>))
         ELSE Raise(Exc("TypeError",
                        <<"The server did not send the data as a list."
                            \o "Received " \o FormatType(GetHomeworks(resp))>>))
    ELSE Raise(Exc("TypeError",
                   <<"The server did not send the data as a dict."
                       \o "Received " \o FormatType(resp)>>))

\* parse_status: the text of a status report
ReportText(name, verdict) ==
    "Status of the check of work \"" \o name \o "\" changed. " \o verdict

\* a status without a verdict is reported as it came
parse_status_anystatus(homework) ==
    IF homework.t # "dict"
    THEN Raise(Exc("AttributeError",
                   <<"'" \o homework.t \o "' object has no attribute 'get'">>))
    ELSE LET homework_name == DictGet(homework.fields, "homework_name")
             status == DictGet(homework.fields, "status")
         IN  IF ~Truthy(homework_name)
             THEN Raise(Exc("KeyError",
                            <<"The response came with a missing name.",
                              "Work name: \"" \o Format(homework_name)
                                  \o "\"">>))
             ELSE IF ~(status.t = "str" /\ status.v \in DOMAIN VERDICTS)
             THEN Return(ReportText(Format(homework_name), Format(status)))
             ELSE Return(ReportText(Format(homework_name),
                                    VERDICTS[status.v]))

\* parse_status
parse_status(homework) ==
    IF homework.t # "dict"
    THEN Raise(Exc("AttributeError",
                   <<"'" \o homework.t \o "' object has no attribute 'get'">>))
    ELSE LET homework_name == DictGet(homework.fields, "homework_name")
             status == DictGet(homework.fields, "status")
         IN  IF ~Truthy(homework_name)
             THEN Raise(Exc("KeyError",
                            <<"The response came with a missing name.",
                              "Work name: \"" \o Format(homework_name)
                                  \o "\"">>))
             ELSE IF ~(status.t = "str" /\ status.v \in DOMAIN VERDICTS)
             THEN Raise(Exc("NameError",
                            <<"The response came with an unknown or missing"
                                  \o " work status",
                              "Work status: " \o Format(status)>>))
             ELSE Return(ReportText(Format(homework_name),
                                    VERDICTS[status.v]))

\* one value is enough
check_tokens_any(env) == TokenNames \cap env # {}

\* check_tokens
check_tokens(env) == TokenNames \subseteq env

\* main: f'{type(error).__name__}: {error}'
ErrorText(e) == e.kind \o ": " \o ExcStr(e)

\* main: the except clauses of the loop, in order
ExceptClauses == <<"ErrorNotToSend", "Exception">>

\* the clause for Exception comes first
HandlerFor_swapped(kind) ==
    IF IsInstance(kind, ExceptClauses[2]) THEN "HandlingError"
    ELSE IF IsInstance(kind, ExceptClauses[1]) THEN "HandlingNotToSend"
    ELSE "Crashed"

\* main: where an exception raised in the try block of the loop goes
HandlerFor(kind) ==
    IF IsInstance(kind, ExceptClauses[1]) THEN "HandlingNotToSend"
    ELSE IF IsInstance(kind, ExceptClauses[2]) THEN "HandlingError"
    ELSE "Crashed"

\* only one class of errors is caught
ErrorSendClause_narrow == "UnexpectedTypeError"

\* main: the except clause around the sending of an error text
ErrorSendClause == "Exception"

\* every report counts as new
Differs_always(cur, prev) == TRUE

\* only the first text ever counts as new
Differs_keys(cur, prev) == DOMAIN cur # DOMAIN prev

\* main: current_report != prev_report
Differs(cur, prev) == cur # prev

\* the oldest record is taken
Newest_last(hws) == hws[Len(hws)]

\* main: homework = homeworks[0]
Newest(hws) == hws[1]

----------------------------------------------------------------------------
(* main *)

LoopStates ==
    {"Fetching", "Validating", "Parsing", "Deciding", "Notifying",
     "HandlingNotToSend", "HandlingError", "NotifyingError"}

\* one call of bot.send_message, as the iteration made it
Send(text, ok, path) == [text |-> text, ok |-> ok, path |-> path]

Init ==
    /\ pc = "Starting"
    /\ tokens \in SUBSET TokenNames
    /\ now = StartTime
    /\ current_time = 0
    /\ prev_report = EmptyDict
    /\ current_report = EmptyDict
    /\ response = NoBody
    /\ homeworks = NoList
    /\ message = NoText
    /\ remote = NoRemote
    /\ from_date = 0
    /\ caught = NoExc
    /\ parsed = FALSE
    /\ sends = <<>>
    /\ cycle_prev = EmptyDict
    /\ slept = FALSE
    /\ commits = <<>>
    /\ last_attempt = NoText

\* lines 141-148: the caches, check_tokens, current_time
Start ==
    /\ pc = "Starting"
    /\ IF check_tokens(tokens)
       THEN /\ pc' = "Sleeping"
            /\ current_time' = now
       ELSE /\ pc' = "Exited"
            /\ UNCHANGED current_time
    /\ prev_report' = EmptyDict
    /\ current_report' = EmptyDict
    /\ UNCHANGED <<tokens, now, response, homeworks, message, remote,
                   from_date, caught, parsed, sends, cycle_prev,
                   slept, commits, last_attempt>>

\* line 149: time.sleep(RETRY_TIME), before the loop
Sleep ==
    /\ pc = "Sleeping"
    /\ now' = now + RETRY_TIME
    /\ pc' = "Fetching"
    /\ slept' = TRUE
    /\ UNCHANGED <<tokens, current_time, prev_report, current_report,
                   response, homeworks, message, remote, from_date, caught,
                   parsed, sends, cycle_prev,
                   commits, last_attempt>>

\* time passes while the loop runs
Tick ==
    /\ pc \in LoopStates
    /\ now < StartTime + RETRY_TIME + MaxTicks
    /\ now' = now + 1
    /\ UNCHANGED <<pc, tokens, current_time, prev_report, current_report,
                   response, homeworks, message, remote, from_date, caught,
                   parsed, sends, cycle_prev,
                   slept, commits, last_attempt>>

\* line 163: response = get_api_answer(current_time), at the head of an
\* iteration; the locals of the iteration before are dead here
Fetch ==
    /\ pc = "Fetching"
    /\ \E rem \in Remotes :
         LET r == get_api_answer(rem)
         IN  /\ remote' = rem
             /\ from_date' = Timestamp(current_time, now)
             /\ response' = IF r.ok THEN r.value ELSE NoBody
             /\ caught' = r.exc
             /\ pc' = IF r.ok THEN "Validating" ELSE HandlerFor(r.exc.kind)
    /\ homeworks' = NoList
    /\ message' = NoText
    /\ parsed' = FALSE
    /\ sends' = <<>>
    /\ cycle_prev' = prev_report
    /\ slept' = FALSE
    /\ commits' = <<>>
    /\ UNCHANGED <<tokens, now, current_time, prev_report, current_report,
                   last_attempt>>

\* lines 164-165 and 176-177: homeworks = check_response(response)
Validate ==
    /\ pc = "Validating"
    /\ LET r == check_response(response)
       IN  /\ homeworks' = IF r.ok THEN r.value ELSE NoList
           /\ caught' = r.exc
           /\ pc' = IF ~r.ok THEN HandlerFor(r.exc.kind)
                    ELSE IF r.value # <<>> THEN "Parsing"
                    ELSE "Fetching"
    /\ UNCHANGED <<tokens, now, current_time, prev_report, current_report,
                   response, message, remote, from_date, parsed, sends,
                   cycle_prev,
                   slept, commits, last_attempt>>

\* lines 166-168: message = parse_status(homeworks[0])
Parse ==
    /\ pc = "Parsing"
    /\ parsed' = TRUE
    /\ LET r == parse_status(Newest(homeworks))
       IN  IF r.ok
           THEN /\ message' = r.value
                /\ current_report' = DictSet(current_report, "message", r.value)
                /\ pc' = "Deciding"
                /\ UNCHANGED caught
           ELSE /\ caught' = r.exc
                /\ pc' = HandlerFor(r.exc.kind)
                /\ UNCHANGED <<message, current_report>>
    /\ UNCHANGED <<tokens, now, current_time, prev_report, response,
                   homeworks, remote, from_date, sends, cycle_prev,
                   slept, commits, last_attempt>>

\* lines 169-172 and 174-175: the report is compared with prev_report
Decide ==
    /\ pc = "Deciding"
    /\ IF Differs(current_report, prev_report)
       THEN /\ prev_report' = current_report
            /\ commits' = Append(commits, current_report["message"])
            /\ pc' = "Notifying"
       ELSE /\ pc' = "Fetching"
            /\ UNCHANGED <<prev_report, commits>>
    /\ UNCHANGED <<tokens, now, current_time, current_report, response,
                   homeworks, message, remote, from_date, caught, parsed,
                   sends, cycle_prev,
                   slept, last_attempt>>

\* line 173: send_message(bot, message), the report
Notify ==
    /\ pc = "Notifying"
    /\ \E deliver \in BOOLEAN :
         LET r == send_message(message, deliver)
         IN  /\ sends' = Append(sends, Send(message, r.ok, "report"))
             /\ last_attempt' = message
             /\ caught' = r.exc
             /\ pc' = IF r.ok THEN "Fetching" ELSE HandlerFor(r.exc.kind)
    /\ UNCHANGED <<tokens, now, current_time, prev_report, current_report,
                   response, homeworks, message, remote, from_date, parsed,
                   cycle_prev,
                   slept, commits>>

\* lines 178-180: except ErrorNotToSend
HandleNotToSend ==
    /\ pc = "HandlingNotToSend"
    /\ message' = ErrorText(caught)
    /\ pc' = "Fetching"
    /\ UNCHANGED <<tokens, now, current_time, prev_report, current_report,
                   response, homeworks, remote, from_date, caught, parsed,
                   sends, cycle_prev,
                   slept, commits, last_attempt>>

\* lines 181-187: except Exception
HandleError ==
    /\ pc = "HandlingError"
    /\ message' = ErrorText(caught)
    /\ current_report' = DictSet(current_report, "message", ErrorText(caught))
    /\ IF Differs(current_report', prev_report)
       THEN /\ prev_report' = current_report'
            /\ commits' = Append(commits, ErrorText(caught))
            /\ pc' = "NotifyingError"
       ELSE /\ pc' = "Fetching"
            /\ UNCHANGED <<prev_report, commits>>
    /\ UNCHANGED <<tokens, now, current_time, response, homeworks, remote,
                   from_date, caught, parsed, sends, cycle_prev,
                   slept, last_attempt>>

\* lines 188-194: send_message(bot, message), the error text
NotifyError ==
    /\ pc = "NotifyingError"
    /\ \E deliver \in BOOLEAN :
         LET r == send_message(message, deliver)
         IN  /\ sends' = Append(sends, Send(message, r.ok, "error"))
             /\ last_attempt' = message
             /\ pc' = IF r.ok \/ IsInstance(r.exc.kind, ErrorSendClause)
                      THEN "Fetching"
                      ELSE "Crashed"
    /\ UNCHANGED <<tokens, now, current_time, prev_report, current_report,
                   response, homeworks, message, remote, from_date, caught,
                   parsed, cycle_prev,
                   slept, commits>>

\* one step of main
Step ==
    \/ Start
    \/ Sleep
    \/ Fetch
    \/ Validate
    \/ Parse
    \/ Decide
    \/ Notify
    \/ HandleNotToSend
    \/ HandleError
    \/ NotifyError

Next == Step \/ Tick

Spec == Init /\ [][Next]_vars

\* main is a sequential program: it takes its next step
FairSpec == Spec /\ WF_vars(Step)

TypeOK ==
    /\ pc \in LoopStates \cup {"Starting", "Sleeping", "Exited", "Crashed"}
    /\ tokens \subseteq TokenNames
    /\ now \in Nat
    /\ current_time \in Nat
    /\ DOMAIN prev_report \subseteq {"message"}
    /\ DOMAIN current_report \subseteq {"message"}
    /\ Len(sends) <= 2
    /\ slept \in BOOLEAN
    /\ Len(commits) <= 2

----------------------------------------------------------------------------
(* Vocabulary of the properties *)

\* an iteration of the loop has run to its end
CycleEnd == pc = "Fetching" /\ remote # NoRemote

\* the API answered the request of the iteration with 200 and this body
GotDict == remote.net = "ok" /\ remote.status_code = 200 /\ remote.body.t = "dict"

\* the dict that retains one text
Retained(text) == [message |-> text]

\* the texts of status reports, for the names and statuses of the inputs
ReportTexts ==
    {"Status of the check of work \"" \o n \o "\" changed. " \o v :
        n \in HomeworkNames \ {""},
        v \in {"Work checked: the reviewer liked everything. Hooray!",
               "Work taken for review by the reviewer.",
               "Work checked: the reviewer has remarks."}}

IsReport(d) == d # EmptyDict /\ d["message"] \in ReportTexts

\* the iteration went to the handler of line 181 (an error to report)
OnErrorPath ==
    /\ caught.kind \notin {"none", "ErrorNotToSend", "SendMessageFailed",
                           "EmptyResponse"}

\* the signature of the error of the iteration: "<ErrorKind>: <message>"
Signature == caught.kind \o ": " \o ExcStr(caught)

Attempted(path, text) ==
    \E i \in 1..Len(sends) : sends[i].path = path /\ sends[i].text = text

Delivered(text) ==
    \E i \in 1..Len(sends) : sends[i].ok /\ sends[i].text = text

----------------------------------------------------------------------------
(* Properties *)

\* C1: when an iteration ends having overwritten the retained report with a
\* status report, that report was delivered in the iteration: the cache is
\* written only after send_message returned, so a report whose delivery
\* failed is not retained as notified.
C1_LastReportOnlyAfterDelivery ==
    (CycleEnd /\ prev_report # cycle_prev /\ IsReport(prev_report))
        => Delivered(prev_report["message"])

\* C2: an iteration that parsed a report sends it if and only if it differs
\* from the retained report the iteration began with; it sends it once and
\* sends nothing else on the report path.
C2_NotifyIffReportDiffers ==
    (CycleEnd /\ parsed /\ parse_status(homeworks[1]).ok)
        => LET text == parse_status(homeworks[1]).value
           IN  /\ Attempted("report", text) <=> Retained(text) # cycle_prev
               /\ \A i \in 1..Len(sends) :
                    sends[i].path = "report" /\ sends[i].text = text
               /\ Len(sends) <= 1

\* C2: an iteration parsed the report that was already retained and sent
\* nothing.
C2_Witness ==
    /\ CycleEnd
    /\ parsed
    /\ parse_status(homeworks[1]).ok
    /\ Retained(parse_status(homeworks[1]).value) = cycle_prev
    /\ sends = <<>>

\* C3: an iteration that ends on the error path leaves a retained status
\* report as it was, so that the same report is not sent again after it.
C3_ErrorCycleKeepsLastReport ==
    (CycleEnd /\ OnErrorPath /\ IsReport(cycle_prev))
        => prev_report = cycle_prev

\* C4: an iteration on the error path sends the signature of its error if
\* and only if the signature differs from the text retained when the
\* iteration began; it sends it once and sends nothing else.
C4_NotifyIffSignatureDiffers ==
    (CycleEnd /\ OnErrorPath)
        => /\ Attempted("error", Signature) <=> Retained(Signature) # cycle_prev
           /\ \A i \in 1..Len(sends) :
                sends[i].path = "error" /\ sends[i].text = Signature
           /\ Len(sends) <= 1

\* C4: the fault of the iteration before came again and nothing was sent.
C4_Witness ==
    /\ CycleEnd
    /\ OnErrorPath
    /\ Retained(Signature) = cycle_prev
    /\ sends = <<>>

\* C5: when an iteration on the error path ends having overwritten the
\* retained text with the signature of its error, the signature was
\* delivered in the iteration: an error whose sending failed is not
\* retained as notified.
C5_LastErrorOnlyAfterDelivery ==
    (CycleEnd /\ OnErrorPath /\ prev_report # cycle_prev)
        => Delivered(prev_report["message"])

\* C6: a dict without the key homeworks gives the quiet outcome: the
\* iteration raises EmptyResponse, sends nothing and leaves the retained
\* text as it was.
C6_MissingHomeworksIsQuiet ==
    (CycleEnd /\ GotDict /\ "homeworks" \notin remote.body.keys)
        => /\ caught.kind = "EmptyResponse"
           /\ sends = <<>>
           /\ prev_report = cycle_prev

\* C7: a dict whose value under homeworks is not a list fails with
\* TypeError; no record is parsed, nothing is sent on the report path, and
\* the signature is sent unless it is the retained text.
C7_NonListHomeworksIsMalformed ==
    (CycleEnd /\ GotDict /\ "homeworks" \in remote.body.keys
        /\ remote.body.homeworks.t # "list")
        => /\ caught.kind = "TypeError"
           /\ ~parsed
           /\ \A i \in 1..Len(sends) : sends[i].path = "error"
           /\ Attempted("error", Signature) <=> Retained(Signature) # cycle_prev

\* C7: such a body came and its signature was sent.
C7_Witness ==
    /\ CycleEnd
    /\ GotDict
    /\ "homeworks" \in remote.body.keys
    /\ remote.body.homeworks.t = "dict"
    /\ caught.kind = "TypeError"
    /\ Attempted("error", Signature)

\* the first record of the iteration is a dict with a name that is not
\* empty and a status that is absent or not approved, reviewing or rejected
FirstHasUnknownStatus ==
    /\ GotDict
    /\ "homeworks" \in remote.body.keys
    /\ remote.body.homeworks.t = "list"
    /\ remote.body.homeworks.items # <<>>
    /\ LET first == remote.body.homeworks.items[1]
       IN  /\ first.t = "dict"
           /\ "homework_name" \in DOMAIN first.fields
           /\ first.fields["homework_name"] # ""
           /\ \/ "status" \notin DOMAIN first.fields
              \/ first.fields["status"]
                    \notin {"approved", "reviewing", "rejected"}

\* C8: for such a first record parse_status fails with NameError, no status
\* report is sent, and the signature is sent unless it is the retained text.
C8_UnknownStatusIsError ==
    (CycleEnd /\ FirstHasUnknownStatus)
        => /\ parsed
           /\ caught.kind = "NameError"
           /\ \A i \in 1..Len(sends) : sends[i].path = "error"
           /\ Attempted("error", Signature) <=> Retained(Signature) # cycle_prev

\* C8: a record with the status bogus came and its signature was delivered.
C8_Witness ==
    /\ CycleEnd
    /\ FirstHasUnknownStatus
    /\ "status" \in DOMAIN remote.body.homeworks.items[1].fields
    /\ caught.kind = "NameError"
    /\ Delivered(Signature)

\* the API answered the request of the iteration with an empty list
GotEmptyList ==
    /\ GotDict
    /\ "homeworks" \in remote.body.keys
    /\ remote.body.homeworks.t = "list"
    /\ remote.body.homeworks.items = <<>>

\* C9: an iteration whose homeworks list is empty sends nothing, raises no
\* error and leaves the retained text as it was.
C9_EmptyListIsQuiet ==
    (CycleEnd /\ GotEmptyList)
        => /\ sends = <<>>
           /\ caught = NoExc
           /\ ~parsed
           /\ prev_report = cycle_prev

\* C9: an empty list came while a text was retained.
C9_Witness ==
    /\ CycleEnd
    /\ GotEmptyList
    /\ prev_report # EmptyDict
    /\ prev_report = cycle_prev
    /\ sends = <<>>

\* C10: once the tokens are there, the loop comes back to the request again
\* and again, whatever an iteration met.
C10_FetchingInfinitelyOften ==
    check_tokens(tokens) => []<>(pc = "Fetching")

\* C10: the sending of an error text failed and the loop is at the request
\* again.
C10_Witness ==
    /\ CycleEnd
    /\ OnErrorPath
    /\ \E i \in 1..Len(sends) : sends[i].path = "error" /\ ~sends[i].ok

\* C11: no request is made without a wait of the fixed interval since the
\* request before it: every iteration of the loop ends in a sleep.
C11_SleepBeforeEveryFetch ==
    [][(pc = "Fetching" /\ pc' # "Fetching") => slept]_vars

\* C12: the request that follows an iteration that raised nothing asks for a
\* later from_date than the request of that iteration.
C12_CursorAdvances ==
    [][(CycleEnd /\ caught = NoExc /\ pc' # "Fetching")
          => from_date' > from_date]_vars

\* C13, as stated: an iteration whose status report could not be delivered
\* sends the signature of that failure unless it is the retained text.
C13_ReportFailureIsNotified ==
    (CycleEnd /\ caught.kind = "SendMessageFailed")
        => (Attempted("error", Signature) <=> Retained(Signature) # cycle_prev)

\* C13, amended: a failure to deliver a status report is only logged: the
\* failed send is the only send of the iteration, the signature of the
\* failure is neither sent nor retained, and the retained text stays the
\* report. A failed send of an error text is the only send of its
\* iteration as well.
C13_DeliveryFailureIsSilent ==
    /\ (CycleEnd /\ caught.kind = "SendMessageFailed")
          => /\ Len(sends) = 1
             /\ sends[1].path = "report"
             /\ ~sends[1].ok
             /\ message = Signature
             /\ ~Attempted("error", Signature)
             /\ prev_report = Retained(sends[1].text)
    /\ (\E i \in 1..Len(sends) : ~sends[i].ok) => Len(sends) = 1

\* C13: a status report could not be delivered and the iteration is over.
C13_Witness ==
    /\ CycleEnd
    /\ caught.kind = "SendMessageFailed"
    /\ message = Signature

\* C14: when one of the three values is missing the program does not get
\* past its start: no sleep, no request, no send.
C14_NoStartWithoutTokens ==
    ~(TokenNames \subseteq tokens)
        => /\ pc \in {"Starting", "Exited"}
           /\ ~slept
           /\ now = StartTime
           /\ remote = NoRemote
           /\ sends = <<>>
           /\ last_attempt = NoText

\* C14: the program exited with two of the three values set.
C14_Witness ==
    /\ pc = "Exited"
    /\ Cardinality(tokens) = 2

\* C15: a request never asks for an earlier from_date than the request
\* before it.
C15_CursorNeverDecreases ==
    [][remote # NoRemote => from_date' >= from_date]_vars

\* C15: a request was made after an iteration that ended on the error path.
C15_Witness ==
    /\ pc = "Validating"
    /\ cycle_prev # EmptyDict
    /\ ~IsReport(cycle_prev)
    /\ from_date = current_time
    /\ now > current_time + RETRY_TIME

\* C16: an iteration that raised nothing leaves a retained error signature
\* as it was.
C16_SuccessCycleKeepsLastError ==
    (CycleEnd /\ caught = NoExc /\ cycle_prev # EmptyDict
        /\ ~IsReport(cycle_prev))
        => prev_report = cycle_prev

\* C17: an iteration stores a text in prev_report at most once, and when
\* the retained text changed it is the one text stored.
C17_AtMostOneCommit ==
    /\ Len(commits) <= 1
    /\ (CycleEnd /\ prev_report # cycle_prev)
          => (Len(commits) = 1 /\ prev_report = Retained(commits[1]))
    /\ (CycleEnd /\ prev_report = cycle_prev) => commits = <<>>

\* C17: a report was stored, its delivery failed, and nothing else was
\* stored in the iteration.
C17_Witness ==
    /\ CycleEnd
    /\ caught.kind = "SendMessageFailed"
    /\ Len(commits) = 1
    /\ IsReport(Retained(commits[1]))

\* the list of the iteration is not empty
GotRecords ==
    /\ GotDict
    /\ "homeworks" \in remote.body.keys
    /\ remote.body.homeworks.t = "list"
    /\ remote.body.homeworks.items # <<>>

\* C18: the outcome of an iteration with a list that is not empty is the
\* outcome of parse_status for the first record alone: its report is the
\* only text sent on the report path, sent unless it is retained, or its
\* error is the error of the iteration.
C18_OnlyFirstRecordCounts ==
    (CycleEnd /\ GotRecords)
        => LET one == parse_status(remote.body.homeworks.items[1])
           IN  /\ parsed
               /\ one.ok =>
                    /\ caught.kind \in {"none", "SendMessageFailed"}
                    /\ Attempted("report", one.value)
                          <=> Retained(one.value) # cycle_prev
                    /\ \A i \in 1..Len(sends) :
                         sends[i].path = "report" /\ sends[i].text = one.value
               /\ ~one.ok =>
                    /\ caught = one.exc
                    /\ \A i \in 1..Len(sends) :
                         sends[i].path = "error" /\ sends[i].text = Signature

\* C18: the report of the first record was delivered though the record
\* after it has an unknown status.
C18_Witness ==
    /\ CycleEnd
    /\ GotRecords
    /\ Len(remote.body.homeworks.items) > 1
    /\ ~parse_status(remote.body.homeworks.items[2]).ok
    /\ parse_status(remote.body.homeworks.items[1]).ok
    /\ Delivered(parse_status(remote.body.homeworks.items[1]).value)

\* C19: an iteration calls bot.send_message at most once.
C19_AtMostOneSend == Len(sends) <= 1

\* C19: the only send of the iteration was a status report that failed.
C19_Witness ==
    /\ CycleEnd
    /\ Len(sends) = 1
    /\ sends[1].path = "report"
    /\ ~sends[1].ok

\* main is about to call send_message
Sending == pc \in {"Notifying", "NotifyingError"}

\* C20: outside a send the retained text is the text of the latest send, or
\* nothing is retained before the first send; a text about to be sent is
\* already retained and differs from the text of the latest send.
C20_CacheIsLastAttempt ==
    /\ ~Sending =>
         prev_report = IF last_attempt = NoText
                       THEN EmptyDict
                       ELSE Retained(last_attempt)
    /\ Sending =>
         /\ prev_report = Retained(message)
         /\ message # last_attempt

\* C20: after an earlier send, another text is about to be sent.
C20_Witness ==
    /\ Sending
    /\ last_attempt # NoText
    /\ cycle_prev = Retained(last_attempt)
    /\ message # last_attempt

====
